---------------------------- MODULE Spec2Model ----------------------------
(***************************************************************************)
(* Model of the web-search layer of the company-research pipeline:         *)
(* WebSearchTool (src/Tools/webSearchTool.py), i.e. the bounded TTL result *)
(* cache (_cache, _cache_timestamps, _add_to_cache, _get_from_cache) and   *)
(* the search entry point _run with its retry loop.                        *)
(*                                                                         *)
(* Python dicts keep insertion order, and min(d, key=d.get) returns the    *)
(* first minimal key in that order, so a dict is modelled as a sequence of *)
(* [k, v] records in insertion order.  Strings are sequences of one-       *)
(* character strings.  hashlib.md5 is modelled as a collision-free tag on  *)
(* the formatted text.  time.time() is the variable now, which never       *)
(* decreases.                                                              *)
(***************************************************************************)
EXTENDS Integers, Sequences, FiniteSets, TLC

\* ------------------------------------------------------------------ bounds
\* Largest cache_size the constructor is given (0 .. MaxCacheSize).
MaxCacheSize == 2
\* The clock of the search runs stops being advanced at MaxTime.
MaxTime == 8
\* The clock of the direct cache calls stops being advanced at MaxCacheTime.
MaxCacheTime == 2

\* ------------------------------------------------------- program constants
\* max_retries and the initial retry_delay of WebSearchTool._run.
max_retries == 3
initial_retry_delay == 2
\* raw_content[:1000]
content_limit == 1000

Min2(a, b) == IF a <= b THEN a ELSE b

\* ------------------------------------------------------------ Python dicts
DictKeys(d) == {d[i].k : i \in 1..Len(d)}
DictHas(d, key) == key \in DictKeys(d)
DictIndex(d, key) == CHOOSE i \in 1..Len(d) : d[i].k = key
\* d[key]
DictGet(d, key) == d[DictIndex(d, key)].v
\* d.get(key, default)
DictGetOr(d, key, default) == IF DictHas(d, key) THEN DictGet(d, key) ELSE default
\* d[key] = value : an existing key keeps its position, a new one goes last
DictSet(d, key, value) ==
    IF DictHas(d, key)
    THEN [i \in 1..Len(d) |-> IF d[i].k = key THEN [k |-> key, v |-> value] ELSE d[i]]
    ELSE Append(d, [k |-> key, v |-> value])
\* del d[key]
DictDel(d, key) == SelectSeq(d, LAMBDA e : e.k # key)
\* Mutant of DictMinKey: max() where the code has min().
DictMinKey_max(d) ==
    d[CHOOSE i \in 1..Len(d) :
         /\ \A j \in 1..Len(d) : d[i].v >= d[j].v
         /\ \A j \in 1..(i-1) : d[j].v < d[i].v].k
\* min(d, key=d.get) on a non-empty dict: the first key holding the least value
DictMinKey(d) ==
    d[CHOOSE i \in 1..Len(d) :
         /\ \A j \in 1..Len(d) : d[i].v <= d[j].v
         /\ \A j \in 1..(i-1) : d[j].v > d[i].v].k

\* ----------------------------------------------------------------- strings
Lower(c) == IF c = "A" THEN "a" ELSE IF c = "B" THEN "b" ELSE c
\* str.lower()
StrLower(s) == [i \in 1..Len(s) |-> Lower(s[i])]
IsSpace(c) == c = " "
RECURSIVE LStrip(_)
LStrip(s) == IF s # <<>> /\ IsSpace(Head(s)) THEN LStrip(Tail(s)) ELSE s
RECURSIVE RStrip(_)
RStrip(s) == IF s # <<>> /\ IsSpace(s[Len(s)]) THEN RStrip(SubSeq(s, 1, Len(s) - 1)) ELSE s
\* str.strip()
StrStrip(s) == RStrip(LStrip(s))
\* str(n) for 0 <= n <= 99
Digit(n) == CASE n = 0 -> "0" [] n = 1 -> "1" [] n = 2 -> "2" [] n = 3 -> "3"
              [] n = 4 -> "4" [] n = 5 -> "5" [] n = 6 -> "6" [] n = 7 -> "7"
              [] n = 8 -> "8" [] n = 9 -> "9"
IntToStr(n) == IF n < 10 THEN <<Digit(n)>> ELSE <<Digit(n \div 10), Digit(n % 10)>>

\* Mutant of NormalizeQuery: the query is stripped but not lower-cased.
NormalizeQuery_no_lower(query) == StrStrip(query)
\* query = query.strip().lower()
NormalizeQuery(query) == StrLower(StrStrip(query))
\* hashlib.md5(f"{query}:{max_results}".encode()).hexdigest()
get_cache_key(query, max_results) == <<"md5", query \o <<":">> \o IntToStr(max_results)>>

\* --------------------------------------------------- provider and results
\* Items a provider response may carry in its 'results' list.  raw_len is
\* len(raw_content) (0: missing or empty); a score of "bad" is one float()
\* rejects; a non-dict item is skipped by the isinstance test.
ItemFull == [isdict |-> TRUE, has_title |-> TRUE, title |-> "T1", url |-> "u1",
             raw |-> "text1", raw_len |-> 1200, score |-> "9"]
ItemBare == [isdict |-> TRUE, has_title |-> FALSE, title |-> "", url |-> "u2",
             raw |-> "", raw_len |-> 0, score |-> "5"]
ItemNotDict == [isdict |-> FALSE, has_title |-> FALSE, title |-> "", url |-> "",
                raw |-> "", raw_len |-> 0, score |-> "0"]
ItemBadScore == [isdict |-> TRUE, has_title |-> TRUE, title |-> "T3", url |-> "u3",
                 raw |-> "text3", raw_len |-> 4, score |-> "bad"]

\* What one call of self._tavily_client.search can do: raise (raises is the
\* text of the exception), or return a response (a dict with or without the
\* key 'results').
ProviderOutcomes ==
    { [raises |-> "ConnectionError", has_results |-> FALSE, results |-> <<>>],
      [raises |-> "Timeout", has_results |-> FALSE, results |-> <<>>],
      [raises |-> "", has_results |-> FALSE, results |-> <<>>],
      [raises |-> "", has_results |-> TRUE, results |-> <<>>],
      [raises |-> "", has_results |-> TRUE, results |-> <<ItemFull>>],
      [raises |-> "", has_results |-> TRUE, results |-> <<ItemBare, ItemNotDict, ItemFull>>],
      [raises |-> "", has_results |-> TRUE, results |-> <<ItemNotDict>>],
      [raises |-> "", has_results |-> TRUE, results |-> <<ItemFull, ItemBadScore>>] }

\* result.get('raw_content', '')[:1000] + '...' if result.get('raw_content') else ''
\* A text is the source it is a prefix of, its length, and whether '...' ends it.
ContentOf(item) ==
    IF item.raw_len > 0
    THEN [src |-> item.raw, len |-> Min2(item.raw_len, content_limit), dots |-> TRUE, err |-> ""]
    ELSE [src |-> "", len |-> 0, dots |-> FALSE, err |-> ""]
\* The record appended for one dict item (lines 89-94).
ResultOf(item) ==
    [title |-> IF item.has_title THEN item.title ELSE "No Title",
     url |-> item.url,
     content |-> ContentOf(item),
     relevance_score |-> item.score]
\* The loop over search_results.get('results', []): the records of the dict
\* items in order, or an exception when float() rejects a score.
RECURSIVE ProcessItems(_)
ProcessItems(items) ==
    IF items = <<>> THEN [raised |-> FALSE, results |-> <<>>]
    ELSE LET rest == ProcessItems(Tail(items))
             item == Head(items)
         IN  IF ~item.isdict THEN rest
             ELSE IF item.score = "bad" THEN [raised |-> TRUE, results |-> <<>>]
             ELSE IF rest.raised THEN rest
             ELSE [raised |-> FALSE, results |-> <<ResultOf(item)>> \o rest.results]
ProcessResponse(outcome) ==
    ProcessItems(IF outcome.has_results THEN outcome.results ELSE <<>>)

\* Mutant of NoResultsSentinel: an empty response is returned as it is.
NoResultsSentinel_empty == <<>>
NoResultsSentinel ==
    <<[title |-> "No results found", url |-> "",
       content |-> [src |-> "", len |-> 0, dots |-> FALSE, err |-> ""],
       relevance_score |-> "0"]>>
\* f"Web search failed after {max_retries} attempts: {str(e)}"
SearchErrorSentinel(e) ==
    <<[title |-> "Search Error", url |-> "",
       content |-> [src |-> "Web search failed after 3 attempts: ", len |-> 0,
                    dots |-> FALSE, err |-> e],
       relevance_score |-> "0"]>>

\* Optional[List]: None, or a list
None == [some |-> FALSE, val |-> <<>>]
Some(list) == [some |-> TRUE, val |-> list]

\* ------------------------------------------------------------------- state
VARIABLES
    cache,             \* self._cache : key -> result list
    cache_timestamps,  \* self._cache_timestamps : key -> insertion time
    max_cache_size,    \* self._max_cache_size
    now,               \* time.time()
    last,              \* the latest direct call of a cache method and its outcome
    pc,                \* where _run stands: idle, attempt, sleep, done (returned)
    query,             \* _run's query after normalisation
    max_results,       \* _run's max_results
    cache_key,         \* _run's cache_key
    attempt,           \* _run's loop variable
    retry_delay,       \* _run's retry_delay
    ret,               \* what _run returned: kind none (running), list, None or raise
    obs,               \* what the current call of _run was seen to do
    b_pc,              \* where a batch search stands: idle, gather, done, raised
    b_queries,         \* _search_async's queries
    b_max,             \* _search_async's max_results
    b_task,            \* the search_one coroutine the event loop is running (0: none)
    b_results,         \* what the coroutines returned so far, in task order
    b_all,             \* all_results, the list the batch search returned
    companies,         \* main's companies, the list of the submitted form
    company_idx,       \* main's loop index (from 1; 0 before a form is submitted)
    m_pc,              \* where main stands: form, loop, invoke
    runs,              \* per company of the list: its research_company call and graph run
    research_results,  \* st.session_state['research_results']
    report_cache,      \* the rows of the table report_cache
    memo,              \* what st.cache_data holds for get_cached_report
    wall               \* datetime.now(), in hours

cachevars == <<cache, cache_timestamps, max_cache_size>>
runvars == <<pc, query, max_results, cache_key, attempt, retry_delay, ret, obs>>
batchvars == <<b_pc, b_queries, b_max, b_task, b_results, b_all>>
\* the state of the callers of the search tool
pipevars == <<companies, company_idx, m_pc, runs, research_results, report_cache,
              memo, wall>>
outervars == <<batchvars, pipevars>>
\* the search tool and its batch callers
toolvars == <<cachevars, now, last, runvars, batchvars>>
vars == <<cache, cache_timestamps, max_cache_size, now, last, pc, query, max_results,
          cache_key, attempt, retry_delay, ret, obs, outervars>>

\* ------------------------------------------------------------- the cache
\* Mutant of get_from_cache: the age test is < where the code has <=.
get_from_cache_strict(c, ts, key, ttl, t) ==
    IF DictHas(c, key)
    THEN IF t - DictGetOr(ts, key, 0) < ttl
         THEN [raised |-> "", result |-> Some(DictGet(c, key)), cache |-> c, ts |-> ts]
         ELSE [raised |-> "", result |-> None,
               cache |-> DictDel(c, key), ts |-> DictDel(ts, key)]
    ELSE [raised |-> "", result |-> None, cache |-> c, ts |-> ts]
\* Mutant of get_from_cache: an expired entry is reported absent but kept.
get_from_cache_keep_expired(c, ts, key, ttl, t) ==
    IF DictHas(c, key) /\ t - DictGetOr(ts, key, 0) <= ttl
    THEN [raised |-> "", result |-> Some(DictGet(c, key)), cache |-> c, ts |-> ts]
    ELSE [raised |-> "", result |-> None, cache |-> c, ts |-> ts]
\* Mutant of get_from_cache: an expired entry is deleted from _cache only.
get_from_cache_half_delete(c, ts, key, ttl, t) ==
    IF DictHas(c, key)
    THEN IF t - DictGetOr(ts, key, 0) <= ttl
         THEN [raised |-> "", result |-> Some(DictGet(c, key)), cache |-> c, ts |-> ts]
         ELSE [raised |-> "", result |-> None, cache |-> DictDel(c, key), ts |-> ts]
    ELSE [raised |-> "", result |-> None, cache |-> c, ts |-> ts]
\* Mutant of get_from_cache: a hit refreshes the entry's timestamp.
get_from_cache_refresh(c, ts, key, ttl, t) ==
    IF DictHas(c, key)
    THEN IF t - DictGetOr(ts, key, 0) <= ttl
         THEN [raised |-> "", result |-> Some(DictGet(c, key)),
               cache |-> c, ts |-> DictSet(ts, key, t)]
         ELSE [raised |-> "", result |-> None,
               cache |-> DictDel(c, key), ts |-> DictDel(ts, key)]
    ELSE [raised |-> "", result |-> None, cache |-> c, ts |-> ts]
\* _get_from_cache (lines 34-45) at time t: the value returned and the dicts
\* it leaves.  del of a key a dict does not hold raises KeyError.
get_from_cache(c, ts, key, ttl, t) ==
    IF DictHas(c, key)
    THEN IF t - DictGetOr(ts, key, 0) <= ttl
         THEN [raised |-> "", result |-> Some(DictGet(c, key)), cache |-> c, ts |-> ts]
         ELSE IF DictHas(ts, key)
              THEN [raised |-> "", result |-> None,
                    cache |-> DictDel(c, key), ts |-> DictDel(ts, key)]
              ELSE [raised |-> "KeyError", result |-> None,
                    cache |-> DictDel(c, key), ts |-> ts]
    ELSE [raised |-> "", result |-> None, cache |-> c, ts |-> ts]

\* Mutant of add_to_cache: the capacity test is > where the code has >=.
add_to_cache_off_by_one(c, ts, cap, key, results, t) ==
    IF Len(c) > cap /\ ts # <<>>
    THEN LET oldest_key == DictMinKey(ts)
         IN  [raised |-> "",
              cache |-> DictSet(DictDel(c, oldest_key), key, results),
              ts |-> DictSet(DictDel(ts, oldest_key), key, t)]
    ELSE [raised |-> "", cache |-> DictSet(c, key, results), ts |-> DictSet(ts, key, t)]
\* Mutant of add_to_cache: the line that records the timestamp is missing.
add_to_cache_no_timestamp(c, ts, cap, key, results, t) ==
    IF Len(c) >= cap
    THEN IF ts = <<>>
         THEN [raised |-> "ValueError", cache |-> c, ts |-> ts]
         ELSE LET oldest_key == DictMinKey(ts)
              IN  [raised |-> "",
                   cache |-> DictSet(DictDel(c, oldest_key), key, results),
                   ts |-> DictDel(ts, oldest_key)]
    ELSE [raised |-> "", cache |-> DictSet(c, key, results), ts |-> ts]
\* Mutant of add_to_cache: the entry is stored before the capacity test, so
\* it is in the dicts when min() raises.
add_to_cache_store_first(c, ts, cap, key, results, t) ==
    IF Len(c) >= cap
    THEN IF ts = <<>>
         THEN [raised |-> "ValueError",
               cache |-> DictSet(c, key, results), ts |-> DictSet(ts, key, t)]
         ELSE LET oldest_key == DictMinKey(ts)
              IN  [raised |-> "",
                   cache |-> DictSet(DictDel(c, oldest_key), key, results),
                   ts |-> DictSet(DictDel(ts, oldest_key), key, t)]
    ELSE [raised |-> "", cache |-> DictSet(c, key, results), ts |-> DictSet(ts, key, t)]
\* _add_to_cache (lines 47-57) at time t: the dicts it leaves.  min() of an
\* empty dict raises ValueError before anything is stored.
add_to_cache(c, ts, cap, key, results, t) ==
    IF Len(c) >= cap
    THEN IF ts = <<>>
         THEN [raised |-> "ValueError", cache |-> c, ts |-> ts]
         ELSE LET oldest_key == DictMinKey(ts)
              IN  IF ~DictHas(c, oldest_key)
                  THEN [raised |-> "KeyError", cache |-> c, ts |-> ts]
                  ELSE [raised |-> "",
                        cache |-> DictSet(DictDel(c, oldest_key), key, results),
                        ts |-> DictSet(DictDel(ts, oldest_key), key, t)]
    ELSE [raised |-> "", cache |-> DictSet(c, key, results), ts |-> DictSet(ts, key, t)]

\* ------------------------------------------------ direct cache method calls
NoKey == <<"", <<>>>>
\* after_put: the call is a lookup of the key that the call just before it
\* stored, with no time elapsed between the two.
NoCall == [op |-> "none", key |-> NoKey, ttl |-> 0, value |-> <<>>, at |-> 0,
           raised |-> "", result |-> None, pre_cache |-> <<>>, pre_ts |-> <<>>,
           after_put |-> FALSE]
\* The queries, result counts and time-to-live values callers pass.
Queries == {<<"a">>, <<" ", "A">>}
ResultCounts == {3, 5}
TTLs == {0, 1}
\* The keys and values the direct calls are made with.
CallKeys == {get_cache_key(<<"a">>, 3), get_cache_key(<<"a">>, 5), get_cache_key(<<"b">>, 3)}
CallValues == {<<ResultOf(ItemFull)>>, <<ResultOf(ItemBare), ResultOf(ItemFull)>>}

\* What the current call of _run was seen to do: the query as passed, whether
\* the looked-up key was stored (pre_has) and unexpired (pre_fresh) at the
\* call, the provider calls made, the passes that ended in an exception,
\* whether each of those failed in the provider call itself, the waits, the
\* exception of the last pass when the search gave up, the way it ended
\* (hit, results, noresults, error, raise); and of the call of _run that
\* ended just before it: the way that one ended (prev_outcome) and how its
\* arguments relate to this call's (rel).
NoObs == [raw_query |-> <<>>, pre_has |-> FALSE, pre_fresh |-> FALSE, calls |-> 0,
          fails |-> 0, provider_only |-> TRUE, sleeps |-> <<>>, last_error |-> "",
          outcome |-> "none", prev_outcome |-> "none", rel |-> "other"]
\* How the arguments (q2, mr2) of a call relate to those of the call before:
\* same, variant (another spelling of the same normalised query), count
\* (the same query string with another max_results), other.
Relation(q1, mr1, q2, mr2) ==
    IF q1 = q2 /\ mr1 = mr2 THEN "same"
    ELSE IF NormalizeQuery(q1) = NormalizeQuery(q2) /\ mr1 = mr2 THEN "variant"
    ELSE IF q1 = q2 THEN "count"
    ELSE "other"

Init ==
    /\ cache = <<>>
    /\ cache_timestamps = <<>>
    /\ max_cache_size \in 0..MaxCacheSize
    /\ now = 0
    /\ last = NoCall
    /\ pc = "idle"
    /\ query = <<>>
    /\ max_results = 0
    /\ cache_key = NoKey
    /\ attempt = 0
    /\ retry_delay = 0
    /\ ret = [kind |-> "none", val |-> <<>>]
    /\ obs = NoObs
    /\ b_pc = "idle"
    /\ b_queries = <<>>
    /\ b_max = 0
    /\ b_task = 0
    /\ b_results = <<>>
    /\ b_all = <<>>
    /\ companies = <<>>
    /\ company_idx = 0
    /\ m_pc = "form"
    /\ runs = <<>>
    /\ research_results = <<>>
    /\ report_cache = <<>>
    /\ memo = <<>>
    /\ wall = 0

\* self._add_to_cache(key, results) called on its own
CallAddToCache(key, results) ==
    LET r == add_to_cache(cache, cache_timestamps, max_cache_size, key, results, now)
    IN  /\ cache' = r.cache
        /\ cache_timestamps' = r.ts
        /\ last' = [op |-> "put", key |-> key, ttl |-> 0, value |-> results, at |-> now,
                    raised |-> r.raised, result |-> None,
                    pre_cache |-> cache, pre_ts |-> cache_timestamps,
                    after_put |-> FALSE]
        /\ UNCHANGED <<max_cache_size, now>>
        /\ UNCHANGED <<runvars, outervars>>

\* self._get_from_cache(key, ttl) called on its own
CallGetFromCache(key, ttl) ==
    LET r == get_from_cache(cache, cache_timestamps, key, ttl, now)
    IN  /\ cache' = r.cache
        /\ cache_timestamps' = r.ts
        /\ last' = [op |-> "get", key |-> key, ttl |-> ttl, value |-> <<>>, at |-> now,
                    raised |-> r.raised, result |-> r.result,
                    pre_cache |-> cache, pre_ts |-> cache_timestamps,
                    after_put |-> (/\ last.op = "put" /\ last.raised = ""
                                   /\ last.key = key /\ last.at = now)]
        /\ UNCHANGED <<max_cache_size, now>>
        /\ UNCHANGED <<runvars, outervars>>

\* time passes between two direct calls
CacheTick ==
    /\ now < MaxCacheTime
    /\ now' = now + 1
    /\ UNCHANGED <<cachevars, last>>
    /\ UNCHANGED <<runvars, outervars>>

CallAdd == \E key \in CallKeys, results \in CallValues : CallAddToCache(key, results)
CallGet == \E key \in CallKeys, ttl \in TTLs : CallGetFromCache(key, ttl)
CacheNext == CallAdd \/ CallGet \/ CacheTick
CacheSpec == Init /\ [][CacheNext]_vars

\* ------------------------------------------------------------------- _run
\* The waits the retry loop can still make from attempt a with delay d.
RECURSIVE RemainingSleep(_, _)
RemainingSleep(a, d) ==
    IF a < max_retries - 1 THEN d + RemainingSleep(a + 1, 2 * d) ELSE 0

\* Mutant of ListTruthy: the test `if results:` is missing.
ListTruthy_always(results) == TRUE
\* `if results:` : the empty list is false
ListTruthy(results) == results # <<>>
\* `if cached_results:` : None and the empty list are both false
Truthy(opt) == opt.some /\ ListTruthy(opt.val)

\* Mutant of except_handler: the last pass lets the exception go to the caller.
except_handler_reraise(a, e) ==
    IF a < max_retries - 1
    THEN [pc |-> "sleep", ret |-> [kind |-> "none", val |-> <<>>]]
    ELSE [pc |-> "done", ret |-> [kind |-> "raise", val |-> <<>>]]
\* Lines 102-108, the handler of an exception e raised in pass a of the loop:
\* wait and go on, or give up with the 'Search Error' record.
except_handler(a, e) ==
    IF a < max_retries - 1
    THEN [pc |-> "sleep", ret |-> [kind |-> "none", val |-> <<>>]]
    ELSE [pc |-> "done", ret |-> [kind |-> "list", val |-> SearchErrorSentinel(e)]]
\* Mutant of next_delay: the delay is not doubled.
next_delay_same(d) == d
\* retry_delay *= 2
next_delay(d) == d * 2

\* Lines 59-74: normalise the query, look the key up, return a hit, or enter
\* the retry loop.  cache_ttl is read by this lookup only and is not kept.
RunEnter(q, mr, ttl) ==
    /\ pc \in {"idle", "done"}
    /\ LET nq == NormalizeQuery(q)
           key == get_cache_key(nq, mr)
           g == get_from_cache(cache, cache_timestamps, key, ttl, now)
       IN  /\ query' = nq
           /\ max_results' = mr
           /\ cache_key' = key
           /\ cache' = g.cache
           /\ cache_timestamps' = g.ts
           /\ attempt' = 0
           /\ retry_delay' = initial_retry_delay
           /\ IF g.raised # ""
              THEN /\ pc' = "done"
                   /\ ret' = [kind |-> "raise", val |-> <<>>]
              ELSE IF Truthy(g.result)
              THEN /\ pc' = "done"
                   /\ ret' = [kind |-> "list", val |-> g.result.val]
              ELSE /\ pc' = "attempt"
                   /\ ret' = [kind |-> "none", val |-> <<>>]
           /\ obs' = [NoObs EXCEPT
                        !.raw_query = q,
                        !.pre_has = DictHas(cache, key),
                        !.pre_fresh = (/\ DictHas(cache, key) /\ DictHas(cache_timestamps, key)
                                       /\ now - DictGet(cache_timestamps, key) <= ttl),
                        !.outcome = IF g.raised # "" THEN "raise"
                                    ELSE IF Truthy(g.result) THEN "hit" ELSE "none",
                        !.prev_outcome = obs.outcome,
                        !.rel = IF pc = "done"
                                THEN Relation(obs.raw_query, max_results, q, mr)
                                ELSE "other"]
    /\ UNCHANGED <<max_cache_size, now, last>>
\* A call of _run made on its own.  A caller starts a search only while the
\* clock leaves room for the waits of one whole search.
RunStart(q, mr, ttl) ==
    /\ now + RemainingSleep(0, initial_retry_delay) <= MaxTime
    /\ RunEnter(q, mr, ttl)

\* Lines 76-108, one pass of the loop body: the provider is called and
\* answers with outcome; the response is processed, a non-empty result is
\* stored and returned, an empty one gives the 'No results found' record; an
\* exception anywhere in the try block goes to the handler, which lets the
\* loop wait and go on, or returns the 'Search Error' record on the last pass.
Attempt(outcome) ==
    /\ pc = "attempt"
    /\ LET processed == ProcessResponse(outcome)
           stores == outcome.raises = "" /\ ~processed.raised /\ ListTruthy(processed.results)
           stored == add_to_cache(cache, cache_timestamps, max_cache_size,
                                  cache_key, processed.results, now)
           e == IF outcome.raises # "" THEN outcome.raises
                ELSE IF processed.raised THEN "TypeError"
                ELSE IF stores THEN stored.raised
                ELSE ""
           h == except_handler(attempt, e)
           seen == [obs EXCEPT !.calls = @ + 1]
       IN  /\ IF stores
              THEN cache' = stored.cache /\ cache_timestamps' = stored.ts
              ELSE UNCHANGED <<cache, cache_timestamps>>
           /\ IF e = ""
              THEN /\ pc' = "done"
                   /\ ret' = [kind |-> "list",
                              val |-> IF stores THEN processed.results ELSE NoResultsSentinel]
                   /\ obs' = [seen EXCEPT !.outcome = IF processed.results # <<>>
                                                     THEN "results" ELSE "noresults"]
              ELSE /\ pc' = h.pc
                   /\ ret' = h.ret
                   /\ obs' = [seen EXCEPT
                                !.fails = @ + 1,
                                !.provider_only = @ /\ outcome.raises # "",
                                !.last_error = IF h.pc = "done" THEN e ELSE @,
                                !.outcome = IF h.pc = "done"
                                            THEN (IF h.ret.kind = "list" THEN "error" ELSE "raise")
                                            ELSE @]
    /\ UNCHANGED <<max_cache_size, now, last, query, max_results, cache_key,
                   attempt, retry_delay>>
    /\ UNCHANGED outervars

\* Lines 105-106 and the loop header: time.sleep(retry_delay), the delay is
\* doubled, and the loop takes its next pass; a loop that runs out returns
\* None.
Sleep ==
    /\ pc = "sleep"
    /\ now' = now + retry_delay
    /\ retry_delay' = next_delay(retry_delay)
    /\ attempt' = attempt + 1
    /\ obs' = [obs EXCEPT !.sleeps = Append(@, retry_delay)]
    /\ IF attempt + 1 < max_retries
       THEN pc' = "attempt" /\ ret' = ret
       ELSE pc' = "done" /\ ret' = [kind |-> "None", val |-> <<>>]
    /\ UNCHANGED <<cachevars, last, query, max_results, cache_key>>
    /\ UNCHANGED outervars

\* Time passes between two searches, as long as the clock leaves room for
\* one more search.  (While a search runs the clock advances by its waits.)
Tick ==
    /\ pc \in {"idle", "done"}
    /\ now + 1 + RemainingSleep(0, initial_retry_delay) <= MaxTime
    /\ now' = now + 1
    /\ UNCHANGED <<cachevars, last>>
    /\ UNCHANGED <<runvars, outervars>>

Search ==
    /\ \E q \in Queries, mr \in ResultCounts, ttl \in TTLs : RunStart(q, mr, ttl)
    /\ UNCHANGED outervars
ProviderAnswers == \E outcome \in ProviderOutcomes : Attempt(outcome)
Next == Search \/ ProviderAnswers \/ Sleep \/ Tick
Spec == Init /\ [][Next]_vars
\* A pending provider call returns or fails, and a sleep ends.
FairSpec == Spec /\ WF_vars(ProviderAnswers) /\ WF_vars(Sleep)

\* ------------------------------------------------------------ batch search
\* IndustryResearchTool._search_async and
\* ResourceCollectorTool._search_resources_async: one search_one coroutine
\* per query, asyncio.gather over them, and the results flattened.
\* A behaviour holds one batch, made on the tool as constructed; the later
\* coroutines of the batch find the cache the earlier ones left.
\* The longest batch.
MaxBatch == 2
\* _run's default cache_ttl: the batch search passes none
default_cache_ttl == 3600
BatchQueries == {<<"a">>, <<"b">>}
Batches == UNION {[1..n -> BatchQueries] : n \in 1..MaxBatch}

\* search_one: what the coroutine returns for what _run did: its list (or
\* None), or the empty list when _run raised.
search_one(r) ==
    IF r.kind = "raise" THEN [kind |-> "list", val |-> <<>>] ELSE r

\* Mutant of extend_all: the lists are joined last first.
RECURSIVE extend_all_reversed(_, _)
extend_all_reversed(all_results, results) ==
    IF results = <<>> THEN all_results
    ELSE extend_all_reversed(all_results, Tail(results)) \o Head(results).val
\* for res in results: all_results.extend(res)
RECURSIVE extend_all(_, _)
extend_all(all_results, results) ==
    IF results = <<>> THEN all_results
    ELSE extend_all(all_results \o Head(results).val, Tail(results))

\* The coroutines gather has not started yet, in the order it created them.
PendingTasks == (Len(b_results) + (IF b_task = 0 THEN 0 ELSE 1) + 1)..Len(b_queries)
\* The event loop starts coroutine i: it is the first one not yet started,
\* and no coroutine is running.  search_one holds no await, so a coroutine
\* that runs keeps the loop until it returns.
CanStartTask(i) ==
    /\ b_pc = "gather"
    /\ b_task = 0
    /\ PendingTasks # {}
    /\ i = Len(b_results) + 1

\* loop.run_until_complete(self._search_async(queries)): the coroutines are
\* created and handed to gather.
BatchStart(qs, mr) ==
    /\ b_pc = "idle"
    /\ pc \in {"idle", "done"}
    /\ b_pc' = "gather"
    /\ b_queries' = qs
    /\ b_max' = mr
    /\ b_task' = 0
    /\ b_results' = <<>>
    /\ b_all' = <<>>
    /\ UNCHANGED <<cachevars, now, last>>
    /\ UNCHANGED <<runvars, pipevars>>

\* Coroutine i starts and calls self._web_search_tool._run(query, max_results).
TaskStart(i) ==
    /\ CanStartTask(i)
    /\ RunEnter(b_queries[i], b_max, default_cache_ttl)
    /\ b_task' = i
    /\ UNCHANGED <<b_pc, b_queries, b_max, b_results, b_all>>
    /\ UNCHANGED pipevars

\* _run has returned or raised: the coroutine returns and gather keeps its
\* result at the coroutine's place.
TaskReturn ==
    /\ b_pc = "gather"
    /\ b_task # 0
    /\ pc = "done"
    /\ b_results' = Append(b_results, search_one(ret))
    /\ b_task' = 0
    /\ UNCHANGED <<cachevars, now, last>>
    /\ UNCHANGED <<runvars, pipevars>>
    /\ UNCHANGED <<b_pc, b_queries, b_max, b_all>>

\* gather has every result: they are flattened into all_results, which is
\* returned; extend(None) raises TypeError.
Gathered ==
    /\ b_pc = "gather"
    /\ b_task = 0
    /\ Len(b_results) = Len(b_queries)
    /\ IF \E i \in 1..Len(b_results) : b_results[i].kind # "list"
       THEN b_pc' = "raised" /\ b_all' = <<>>
       ELSE b_pc' = "done" /\ b_all' = extend_all(<<>>, b_results)
    /\ UNCHANGED <<cachevars, now, last>>
    /\ UNCHANGED <<runvars, pipevars>>
    /\ UNCHANGED <<b_queries, b_max, b_task, b_results>>

Batch == \E qs \in Batches, mr \in ResultCounts : BatchStart(qs, mr)
Coroutine == \E i \in 1..MaxBatch : TaskStart(i)
BatchNext == Batch \/ Coroutine \/ ProviderAnswers \/ Sleep \/ TaskReturn \/ Gathered
BatchSpec == Init /\ [][BatchNext]_vars

\* -------------------------------------------------------- pipeline stages
\* The Research Record is a dict: a function from the keys it holds to their
\* values.  Lists are sequences, texts and parsed dicts are strings.
EmptyDict == [k \in {} |-> <<>>]
Has(d, k) == k \in DOMAIN d
Put(d, k, v) == [x \in DOMAIN d \cup {k} |-> IF x = k THEN v ELSE d[x]]
\* d.get(k, default)
GetOr(d, k, default) == IF Has(d, k) THEN d[k] ELSE default
\* What a stage's _run did: raised is the exception that left it ("" when it
\* returned), state the record it returned.
Returned(st) == [raised |-> "", state |-> st]
Raised(e, st) == [raised |-> e, state |-> st]

\* What a remote text-generation call (self._llm.invoke) can do: answer with
\* a text of the asked form (ok), answer with a text the stage's parser finds
\* nothing in (garbled), answer with a well-formed list whose items are not
\* the dicts asked for (untyped), or raise.
LLMOutcomes == {"ok", "garbled", "untyped", "raises"}
\* A URL is the part of it that the relevant domains are looked for in
\* (host) and a number that tells URLs of one host apart; '' is NoUrl.
Url(host, path) == [host |-> host, path |-> path]
NoUrl == Url("", 0)
\* url.lower(), for the hosts that occur
LowerHost(h) == IF h = "GitHub.com" THEN "github.com" ELSE h
\* The URLs _extract_all_urls finds in an answer of the use-case call, in
\* the order of the text: none, one, or three of which two are the same.
MentionedUrls ==
    {<<>>, <<Url("github.com", 1)>>,
     <<Url("github.com", 1), Url("example.com", 1), Url("github.com", 1)>>}
\* list(set(all_urls)): the distinct URLs once each, in whatever order the
\* set gives them.
list_of_set(all_urls) ==
    LET S == {all_urls[i] : i \in 1..Len(all_urls)}
    IN  {f \in [1..Cardinality(S) -> S] :
            \A i \in 1..Cardinality(S) : \A j \in 1..Cardinality(S) : i # j => f[i] # f[j]}
\* The records the stage's batch search returned, best first (at most 10).
SearchHits == <<"r1">>

\* Mutant of append_error: the list is replaced by one that holds msg only.
append_error_replacing(st, msg) ==
    IF ~Has(st, "errors") THEN Raised("KeyError", st)
    ELSE Returned(Put(st, "errors", <<msg>>))
\* state['errors'].append(msg): KeyError when the record holds no 'errors'
append_error(st, msg) ==
    IF ~Has(st, "errors") THEN Raised("KeyError", st)
    ELSE Returned(Put(st, "errors", Append(st["errors"], msg)))

\* IndustryResearchTool._discover_key_offerings: the call and the parse are
\* inside one try; every failure gives the empty list.
discover_key_offerings(llm) == IF llm = "ok" THEN <<"o1">> ELSE <<>>
\* IndustryResearchTool._run, with the answers of its two calls
IndustryResearch_run(st, offerings_llm, analysis_llm) ==
    LET s1 == Put(st, "key_offerings", discover_key_offerings(offerings_llm))
    IN  IF analysis_llm = "raises"
        THEN Returned(Put(Put(Put(Put(s1,
                 "errors", <<"Analysis error">>),
                 "market_trends", <<>>),
                 "industry_insights", "Error during analysis"),
                 "web_search_results", SearchHits))
        ELSE Returned(Put(Put(Put(s1,
                 "market_trends", IF analysis_llm = "ok" THEN <<"t1">> ELSE <<>>),
                 "industry_insights", "insights"),
                 "web_search_results", SearchHits))

\* UseCaseGeneratorTool._run: _extract_use_cases never returns an empty list
\* (it makes up a default use case); the URLs of the answer replace
\* resource_links (urls is list(set(all_urls))); the handler appends to
\* 'errors' before it sets use_cases.
UseCaseGenerator_run(st, llm, urls) ==
    IF llm = "raises"
    THEN LET a == append_error(st, "Use case generation error")
         IN  IF a.raised # "" THEN a
             ELSE Returned(Put(a.state, "use_cases", <<>>))
    ELSE Returned(Put(Put(st,
             "use_cases", IF llm = "ok" THEN <<"uc1">> ELSE <<"default">>),
             "resource_links", IF llm = "ok" THEN urls ELSE <<>>))

\* AIRecommendationTool._run: the prompt reads key_offerings and
\* market_trends; the call is not inside a try.
AIRecommendation_run(st, llm) ==
    IF ~Has(st, "key_offerings") \/ ~Has(st, "market_trends") THEN Raised("KeyError", st)
    ELSE IF llm = "raises" THEN Raised("LLMError", st)
    ELSE Returned(Put(st, "ai_recommendations", "recommendations"))

\* relevant_domains (lines 76-87), in the order of the dict
relevant_domains ==
    <<[k |-> "kaggle.com", v |-> 10], [k |-> "github.com", v |-> 9],
      [k |-> "huggingface.co", v |-> 8], [k |-> "paperswithcode.com", v |-> 7],
      [k |-> "tensorflow.org", v |-> 6], [k |-> "pytorch.org", v |-> 6],
      [k |-> "scikit-learn.org", v |-> 5], [k |-> "openml.org", v |-> 5],
      [k |-> "data.gov", v |-> 4], [k |-> "google.com/dataset", v |-> 4]>>
\* sorted_urls[:15]
max_resource_links == 15
\* One record of a search result as the stage reads it; relevance_score is
\* counted in tenths.
Found(url, score) == [url |-> url, relevance_score |-> score]
\* What the batch search of the stage can return (resource_searches):
\* nothing; a list with a relevant URL twice, a sentinel's empty URL, a URL
\* of no relevant domain, and a host in capitals; more relevant URLs than
\* the stage keeps.
ResourceSearches ==
    {<<>>,
     <<Found(Url("github.com", 1), 9), Found(NoUrl, 0), Found(Url("example.com", 2), 9),
       Found(Url("kaggle.com", 1), 5), Found(Url("github.com", 1), 2),
       Found(Url("GitHub.com", 3), 5)>>,
     [i \in 1..(max_resource_links + 2) |-> Found(Url("kaggle.com", i), i % 3)]}
\* Lines 103-107: the importance of the first relevant domain the URL holds,
\* 0 when it holds none.
domain_score(url) == DictGetOr(relevant_domains, LowerHost(url.host), 0)
\* Lines 89-115: resource_scores, the score of every URL kept, in the order
\* the URLs were first met.
RECURSIVE score_results(_, _)
score_results(resource_scores, results) ==
    IF results = <<>> THEN resource_scores
    ELSE LET url == Head(results).url
         IN  IF url = NoUrl \/ DictHas(resource_scores, url) \/ domain_score(url) = 0
             THEN score_results(resource_scores, Tail(results))
             ELSE score_results(
                      DictSet(resource_scores, url,
                              Head(results).relevance_score * 5 * domain_score(url)),
                      Tail(results))
\* sorted(d.keys(), key=d.get, reverse=True): best first, equal scores in the
\* order of the dict
RECURSIVE sorted_desc(_)
sorted_desc(d) ==
    IF d = <<>> THEN <<>>
    ELSE LET best == CHOOSE i \in 1..Len(d) :
                        /\ \A j \in 1..Len(d) : d[j].v <= d[i].v
                        /\ \A j \in 1..(i - 1) : d[j].v < d[i].v
         IN  <<d[best].k>> \o sorted_desc(SubSeq(d, 1, best - 1) \o SubSeq(d, best + 1, Len(d)))
\* Line 118: sorted_urls
sorted_urls(results) ==
    LET ranked == sorted_desc(score_results(<<>>, results))
    IN  SubSeq(ranked, 1, Min2(Len(ranked), max_resource_links))
\* Mutant of NewUrls: the test `url not in existing_urls` is missing.
NewUrls_all(links, ranked) == ranked
\* The URLs of ranked that links does not hold, in ranked's order.
NewUrls(links, ranked) ==
    SelectSeq(ranked, LAMBDA u : \A i \in 1..Len(links) : links[i] # u)
\* Mutant of ResourceCollector_run: resource_links is not initialised when the
\* record lacks it (the append of a new URL then raises inside the try).
ResourceCollector_run_no_default(st, searches_ok, resource_searches) ==
    IF searches_ok /\ Has(st, "resource_links")
    THEN Returned(Put(st, "resource_links",
                      st["resource_links"]
                        \o NewUrls(st["resource_links"], sorted_urls(resource_searches))))
    ELSE IF searches_ok /\ sorted_urls(resource_searches) = <<>> THEN Returned(st)
    ELSE append_error(st, "Resource collection error")
\* ResourceCollectorTool._run: searches_ok is whether the try block (the
\* batch search, the scoring and the ranking) ran through; resource_searches
\* is what the batch search returned.
ResourceCollector_run(st, searches_ok, resource_searches) ==
    LET s0 == IF Has(st, "resource_links") THEN st ELSE Put(st, "resource_links", <<>>)
    IN  IF searches_ok
        THEN Returned(Put(s0, "resource_links",
                          s0["resource_links"]
                            \o NewUrls(s0["resource_links"], sorted_urls(resource_searches))))
        ELSE append_error(s0, "Resource collection error")

\* CompetitorAnalysisTool._identify_competitors: the call is outside the try,
\* the parse inside it.
identify_competitors(llm) ==
    IF llm = "ok" THEN <<"c1">>
    ELSE IF llm = "untyped" THEN <<"not a dict">>
    ELSE <<>>
\* CompetitorAnalysisTool._run: comp['name'] of an item that is no dict
\* raises TypeError; neither call is inside a try.
CompetitorAnalysis_run(st, competitors_llm, positioning_llm) ==
    IF competitors_llm = "raises" THEN Raised("LLMError", st)
    ELSE LET s1 == Put(st, "competitors", identify_competitors(competitors_llm))
         IN  IF ~Has(st, "key_offerings") THEN Raised("KeyError", s1)
             ELSE IF competitors_llm = "untyped" THEN Raised("TypeError", s1)
             ELSE IF positioning_llm = "raises" THEN Raised("LLMError", s1)
             ELSE Returned(Put(s1, "competitor_analysis_tool",
                               IF positioning_llm = "ok" THEN "positioning" ELSE "{}"))

\* ImplementationPlanningTool._run: one call per use case, outside the try;
\* a text with no parsable plan gives {}.
ImplementationPlanning_run(st, llm) ==
    IF ~Has(st, "use_cases") THEN Raised("KeyError", st)
    ELSE IF st["use_cases"] # <<>> /\ llm = "raises" THEN Raised("LLMError", st)
    ELSE Returned(Put(st, "implementation_plans",
                      [i \in 1..Len(st["use_cases"]) |->
                         [use_case |-> st["use_cases"][i],
                          plan |-> IF llm = "ok" THEN "plan" ELSE "{}"]]))

\* CostBenefitTool._run: one call per use case that has a plan
CostBenefit_run(st, llm) ==
    IF ~Has(st, "use_cases") THEN Raised("KeyError", st)
    ELSE LET n == Min2(Len(st["use_cases"]), Len(GetOr(st, "implementation_plans", <<>>)))
         IN  IF n > 0 /\ llm = "raises" THEN Raised("LLMError", st)
             ELSE Returned(Put(st, "cost_benefit_analyses",
                               [i \in 1..n |->
                                  [use_case |-> st["use_cases"][i],
                                   analysis |-> IF llm = "ok" THEN "analysis" ELSE "{}"]]))

\* ------------------------------------------------------ the workflow graph
\* workflow.py: the nodes of the StateGraph in the order of its edges.
NodeOrder == <<"industry_research", "use_case_generation", "ai_recommendation_node",
               "resource_collection", "competitor_analysis", "implementation_plan",
               "cost_benefit">>
\* workflow.set_entry_point
entry_point == "industry_research"
\* Mutant of Edge: the edges out of the second and third node are exchanged.
Edge_swapped(n) ==
    CASE n = "industry_research" -> "use_case_generation"
      [] n = "use_case_generation" -> "resource_collection"
      [] n = "ai_recommendation_node" -> "competitor_analysis"
      [] n = "resource_collection" -> "ai_recommendation_node"
      [] n = "competitor_analysis" -> "implementation_plan"
      [] n = "implementation_plan" -> "cost_benefit"
      [] n = "cost_benefit" -> "END"
\* workflow.add_edge(n, Edge(n))
Edge(n) ==
    CASE n = "industry_research" -> "use_case_generation"
      [] n = "use_case_generation" -> "ai_recommendation_node"
      [] n = "ai_recommendation_node" -> "resource_collection"
      [] n = "resource_collection" -> "competitor_analysis"
      [] n = "competitor_analysis" -> "implementation_plan"
      [] n = "implementation_plan" -> "cost_benefit"
      [] n = "cost_benefit" -> "END"

\* What a call of the progress callback can do.
CallbackOutcomes == {"returns", "raises"}

\* One call of research_company and the graph run it makes.  call: pending
\* (the loop has not reached the company), active, done (research_company
\* returned), failed (main's handler caught an exception).  pc, the graph
\* run: idle, before / run / after (a node's wrapper is at its first
\* callback, at the stage, at its second callback), end (the graph reached
\* END), raised (an exception left the graph).  graph is what the graph's
\* channels hold, state the dict the running node was given, started the
\* nodes entered so far, result what research_company returned, notified the
\* calls of progress_callback made for the request, in the order made.
NewRun == [call |-> "pending", pc |-> "idle", node |-> "", graph |-> EmptyDict,
           state |-> EmptyDict, started |-> <<>>, result |-> EmptyDict,
           notified |-> <<>>]
Executing(run) == run.pc \in {"before", "run", "after"}

\* An exception leaves the node and the graph: no node runs after it.
Unwind(run) == [run EXCEPT !.pc = "raised", !.state = EmptyDict, !.graph = EmptyDict]
\* The graph writes every key of the dict a node returned to its channels.
channel_update(held, returned) ==
    [k \in DOMAIN held \cup DOMAIN returned |->
        IF k \in DOMAIN returned THEN returned[k] ELSE held[k]]

\* The step and total the callback is given: total_steps is 8 in every call;
\* research_company passes step 0 when it starts the workflow and step 8 for a
\* cached result and at the end; a node's wrapper passes the node's step.
total_steps == 8
\* Mutant of StepOf: the steps of the second and the fourth node are exchanged.
StepOf_exchanged(n) ==
    CASE n = "industry_research" -> 1
      [] n = "use_case_generation" -> 5
      [] n = "ai_recommendation_node" -> 4
      [] n = "resource_collection" -> 3
      [] n = "competitor_analysis" -> 6
      [] n = "implementation_plan" -> 7
      [] n = "cost_benefit" -> 8
StepOf(n) ==
    CASE n = "industry_research" -> 1
      [] n = "use_case_generation" -> 3
      [] n = "ai_recommendation_node" -> 4
      [] n = "resource_collection" -> 5
      [] n = "competitor_analysis" -> 6
      [] n = "implementation_plan" -> 7
      [] n = "cost_benefit" -> 8
\* progress_callback(message, step, total_steps) is called: by is the caller
\* (a node, or research_company), at the place of the call.
Notify(run, by, at, step) ==
    [run EXCEPT !.notified = Append(run.notified,
                                    [by |-> by, at |-> at, step |-> step, total |-> total_steps])]

\* <node>_with_progress, first half: the node is given the graph's record
\* and calls progress_callback (no try around it).
Entered(run) ==
    [run EXCEPT !.pc = "run", !.state = run.graph, !.started = Append(run.started, run.node)]
NotifyBefore(k, cb) ==
    /\ k \in 1..Len(runs)
    /\ runs[k].pc = "before"
    /\ LET told == Notify(runs[k], runs[k].node, "before", StepOf(runs[k].node))
       IN  runs' = [runs EXCEPT ![k] = IF cb = "raises" THEN Unwind(told) ELSE Entered(told)]
    /\ UNCHANGED <<companies, company_idx, m_pc, research_results, report_cache, memo, wall>>
    /\ UNCHANGED toolvars

\* result = tool._run(state): the stage ran and returned r or raised.
StageDone(run, r) ==
    IF r.raised # "" THEN Unwind(run)
    ELSE [run EXCEPT !.pc = "after", !.state = r.state]
RunStage(k, n, r) ==
    /\ k \in 1..Len(runs)
    /\ runs[k].pc = "run"
    /\ runs[k].node = n
    /\ runs' = [runs EXCEPT ![k] = StageDone(@, r)]
    /\ UNCHANGED <<companies, company_idx, m_pc, research_results, report_cache, memo, wall>>
    /\ UNCHANGED toolvars

\* <node>_with_progress, second half: the second callback, then the node
\* returns its record, the graph takes it and follows the node's edge.
Left(run) ==
    [run EXCEPT !.graph = channel_update(run.graph, run.state),
                !.state = EmptyDict,
                !.node = Edge(run.node),
                !.pc = IF Edge(run.node) = "END" THEN "end" ELSE "before"]
NotifyAfter(k, cb) ==
    /\ k \in 1..Len(runs)
    /\ runs[k].pc = "after"
    /\ LET told == Notify(runs[k], runs[k].node, "after", StepOf(runs[k].node))
       IN  runs' = [runs EXCEPT ![k] = IF cb = "raises" THEN Unwind(told) ELSE Left(told)]
    /\ UNCHANGED <<companies, company_idx, m_pc, research_results, report_cache, memo, wall>>
    /\ UNCHANGED toolvars

\* The seven nodes, each with the answers its stage's calls get.
IndustryResearch(k, offerings_llm, analysis_llm) ==
    RunStage(k, "industry_research",
             IndustryResearch_run(runs[k].state, offerings_llm, analysis_llm))
UseCaseGeneration(k, llm, all_urls) ==
    \E urls \in list_of_set(all_urls) :
        RunStage(k, "use_case_generation", UseCaseGenerator_run(runs[k].state, llm, urls))
AIRecommendation(k, llm) ==
    RunStage(k, "ai_recommendation_node", AIRecommendation_run(runs[k].state, llm))
ResourceCollection(k, searches_ok, resource_searches) ==
    RunStage(k, "resource_collection",
             ResourceCollector_run(runs[k].state, searches_ok, resource_searches))
CompetitorAnalysis(k, competitors_llm, positioning_llm) ==
    RunStage(k, "competitor_analysis",
             CompetitorAnalysis_run(runs[k].state, competitors_llm, positioning_llm))
ImplementationPlanning(k, llm) ==
    RunStage(k, "implementation_plan", ImplementationPlanning_run(runs[k].state, llm))
CostBenefit(k, llm) ==
    RunStage(k, "cost_benefit", CostBenefit_run(runs[k].state, llm))

\* ---------------------------------------------------------- the orchestrator
\* app1.py: the report cache, research_company and main's loop.  Time is
\* counted in hours.
\* The longest list of companies, the rows the table may come to hold, and
\* the latest hour.
MaxCompanies == 2
MaxRows == 2
MaxWall == 1
\* @st.cache_data(ttl=3600): one hour
memo_ttl == 1
\* timedelta(days=1): the hours a row stays valid
report_ttl == 24
Companies == {"A", "B"}
industry == "ind"
CompanyLists == UNION {[1..n -> Companies] : n \in 1..MaxCompanies}

\* str(data) and eval of it: the text of a dict of strings, numbers and lists
\* evaluates to an equal dict.
str_of(data) == <<"repr", data>>
eval_of(text) == text[2]
\* `if cached_result:` : None and the empty dict are both false
DictTruthy(opt) == opt.some /\ DOMAIN opt.val # {}

\* The rows the SELECT of get_cached_report matches at hour t.
MatchingRows(rows, company, t) ==
    {i \in 1..Len(rows) : rows[i].company = company /\ rows[i].industry = industry
                          /\ rows[i].created_at > t - report_ttl}
\* Whether st.cache_data answers the call from what it holds.
MemoValid(m, company, t) ==
    DictHas(m, <<company, industry>>) /\ t - DictGet(m, <<company, industry>>).at < memo_ttl
\* get_cached_report under st.cache_data: a call with arguments answered
\* less than an hour ago returns that answer (None too); otherwise the body
\* runs, fetchone gives row number pick of the matching rows (0: none
\* matches), and the answer is kept.
get_cached_report(m, rows, company, t, pick) ==
    IF MemoValid(m, company, t)
    THEN [value |-> DictGet(m, <<company, industry>>).value, memo |-> m]
    ELSE LET v == IF pick = 0 THEN None ELSE Some(eval_of(rows[pick].data))
         IN  [value |-> v, memo |-> DictSet(m, <<company, industry>>, [value |-> v, at |-> t])]
\* cache_report: INSERT INTO report_cache
cache_report(rows, company, data, t) ==
    Append(rows, [company |-> company, industry |-> industry, data |-> str_of(data),
                  created_at |-> t])

\* initial_state = {'company_name': company, 'industry': industry}
initial_state(company) == Put(Put(EmptyDict, "company_name", company), "industry", industry)
\* Mutant of invoke_returned: the graph run is not waited for.
invoke_returned_at_once(run) == TRUE
\* workflow.invoke is a plain call: it is over when the graph reached END or
\* an exception left it.
invoke_returned(run) == run.pc \in {"end", "raised"}

\* The form is submitted: the list is split and the results are cleared.
Submit(cs) ==
    /\ m_pc = "form"
    /\ Len(report_cache) + Len(cs) <= MaxRows
    /\ companies' = cs
    /\ company_idx' = 1
    /\ m_pc' = "loop"
    /\ runs' = [k \in 1..Len(cs) |-> NewRun]
    /\ research_results' = <<>>
    /\ UNCHANGED <<report_cache, memo, wall>>
    /\ UNCHANGED toolvars

\* The loop goes to its next company, or ends.
LoopAdvance ==
    IF company_idx < Len(companies)
    THEN company_idx' = company_idx + 1 /\ m_pc' = "loop"
    ELSE company_idx' = 0 /\ m_pc' = "form"
\* research_company returned result to main, which keeps it.
CallDone(run, result) == [run EXCEPT !.call = "done", !.result = result]
\* except Exception in main: the error is shown and the loop continues.
CallFailed(run) == [run EXCEPT !.call = "failed"]

\* main calls research_company for the loop's company: the cache is asked;
\* on a hit the callback is told and the cached record returned; on a miss
\* the callback is told and workflow.invoke begins.  cb is what the callback
\* does, pick the row fetchone gives when the SELECT runs.
ResearchCompany(cb, pick) ==
    /\ m_pc = "loop"
    /\ LET c == companies[company_idx]
           matching == MatchingRows(report_cache, c, wall)
           g == get_cached_report(memo, report_cache, c, wall, pick)
           told == IF DictTruthy(g.value)
                   THEN Notify(runs[company_idx], "research_company", "cached", total_steps)
                   ELSE Notify(runs[company_idx], "research_company", "starting", 0)
       IN  /\ pick \in (IF matching = {} THEN {0} ELSE matching)
           /\ memo' = g.memo
           /\ IF cb = "raises"
              THEN /\ runs' = [runs EXCEPT ![company_idx] = CallFailed(told)]
                   /\ LoopAdvance
                   /\ UNCHANGED research_results
              ELSE IF DictTruthy(g.value)
              THEN /\ runs' = [runs EXCEPT ![company_idx] = CallDone(told, g.value.val)]
                   /\ research_results' = DictSet(research_results, c, g.value.val)
                   /\ LoopAdvance
              ELSE /\ runs' = [runs EXCEPT ![company_idx] =
                                 [told EXCEPT !.call = "active", !.pc = "before",
                                              !.node = entry_point,
                                              !.graph = initial_state(c)]]
                   /\ m_pc' = "invoke"
                   /\ UNCHANGED <<company_idx, research_results>>
    /\ UNCHANGED <<companies, report_cache, wall>>
    /\ UNCHANGED toolvars

\* workflow.invoke is over.  An exception goes to main's handler.  Otherwise
\* the result is cached, the callback is told, and research_company returns.
InvokeReturns(cb) ==
    /\ m_pc = "invoke"
    /\ invoke_returned(runs[company_idx])
    /\ LET run == runs[company_idx]
           c == companies[company_idx]
           told == Notify(run, "research_company", "completed", total_steps)
       IN  IF run.pc = "raised"
           THEN /\ runs' = [runs EXCEPT ![company_idx] = CallFailed(@)]
                /\ UNCHANGED <<report_cache, research_results>>
           ELSE /\ report_cache' = cache_report(report_cache, c, run.graph, wall)
                /\ IF cb = "raises"
                   THEN /\ runs' = [runs EXCEPT ![company_idx] = CallFailed(told)]
                        /\ UNCHANGED research_results
                   ELSE /\ runs' = [runs EXCEPT ![company_idx] = CallDone(told, run.graph)]
                        /\ research_results' = DictSet(research_results, c, run.graph)
    /\ LoopAdvance
    /\ UNCHANGED <<companies, memo, wall>>
    /\ UNCHANGED toolvars

\* An hour passes while no company is being researched.
Wait ==
    /\ m_pc \in {"form", "loop"}
    /\ wall < MaxWall
    /\ wall' = wall + 1
    /\ UNCHANGED <<companies, company_idx, m_pc, runs, research_results, report_cache, memo>>
    /\ UNCHANGED toolvars

\* One research request, with every answer the remote calls and the
\* callback can give: the form holds one company and the table is empty.
SubmitOne == report_cache = <<>> /\ Submit(<<"A">>)
Lookup == \E cb \in CallbackOutcomes, pick \in 0..MaxRows : ResearchCompany(cb, pick)
Before == \E k \in 1..MaxCompanies, cb \in CallbackOutcomes : NotifyBefore(k, cb)
After == \E k \in 1..MaxCompanies, cb \in CallbackOutcomes : NotifyAfter(k, cb)
Stage1 ==
    \E k \in 1..MaxCompanies, offerings_llm \in LLMOutcomes, analysis_llm \in LLMOutcomes :
        IndustryResearch(k, offerings_llm, analysis_llm)
Stage2 ==
    \E k \in 1..MaxCompanies, llm \in LLMOutcomes, urls \in MentionedUrls :
        UseCaseGeneration(k, llm, urls)
Stage3 == \E k \in 1..MaxCompanies, llm \in LLMOutcomes : AIRecommendation(k, llm)
Stage4 ==
    \E k \in 1..MaxCompanies, searches_ok \in BOOLEAN, resource_searches \in ResourceSearches :
        ResourceCollection(k, searches_ok, resource_searches)
Stage5 ==
    \E k \in 1..MaxCompanies, competitors_llm \in LLMOutcomes, positioning_llm \in LLMOutcomes :
        CompetitorAnalysis(k, competitors_llm, positioning_llm)
Stage6 == \E k \in 1..MaxCompanies, llm \in LLMOutcomes : ImplementationPlanning(k, llm)
Stage7 == \E k \in 1..MaxCompanies, llm \in LLMOutcomes : CostBenefit(k, llm)
Returns == \E cb \in CallbackOutcomes : InvokeReturns(cb)
PipeNext ==
    \/ SubmitOne \/ Lookup \/ Before \/ After \/ Returns
    \/ Stage1 \/ Stage2 \/ Stage3 \/ Stage4 \/ Stage5 \/ Stage6 \/ Stage7
\* create_research_workflow builds its one WebSearchTool with the default
\* cache size.
PipeInit == Init /\ max_cache_size = MaxCacheSize
PipeSpec == PipeInit /\ [][PipeNext]_vars

\* Several requests: lists of companies, the hours passing between them, a
\* callback that returns, and remote calls that answer in the asked form;
\* those of the first three stages may raise instead.
AnswerOrRaise == {"ok", "raises"}
SubmitList == \E cs \in CompanyLists : Submit(cs)
LookupQuiet == \E pick \in 0..MaxRows : ResearchCompany("returns", pick)
BeforeQuiet == \E k \in 1..MaxCompanies : NotifyBefore(k, "returns")
AfterQuiet == \E k \in 1..MaxCompanies : NotifyAfter(k, "returns")
ReturnsQuiet == InvokeReturns("returns")
Plain1 == \E k \in 1..MaxCompanies, llm \in AnswerOrRaise : IndustryResearch(k, "ok", llm)
Plain2 == \E k \in 1..MaxCompanies, llm \in AnswerOrRaise : UseCaseGeneration(k, llm, <<Url("github.com", 1)>>)
Plain3 == \E k \in 1..MaxCompanies, llm \in AnswerOrRaise : AIRecommendation(k, llm)
Plain4 ==
    \E k \in 1..MaxCompanies :
        ResourceCollection(k, TRUE, <<Found(Url("kaggle.com", 1), 5), Found(Url("github.com", 1), 9)>>)
Plain5 == \E k \in 1..MaxCompanies : CompetitorAnalysis(k, "ok", "ok")
Plain6 == \E k \in 1..MaxCompanies : ImplementationPlanning(k, "ok")
Plain7 == \E k \in 1..MaxCompanies : CostBenefit(k, "ok")
OrchNext ==
    \/ SubmitList \/ LookupQuiet \/ BeforeQuiet \/ AfterQuiet \/ ReturnsQuiet \/ Wait
    \/ Plain1 \/ Plain2 \/ Plain3 \/ Plain4 \/ Plain5 \/ Plain6 \/ Plain7
OrchSpec == PipeInit /\ [][OrchNext]_vars

\* ------------------------------------------------------------------ claims
\* C1: the number of cached entries never exceeds the configured capacity
\* (cache_size), whatever insertions and lookups were made; no key is held
\* twice.
C1_SizeBound ==
    /\ Len(cache) <= max_cache_size
    /\ Cardinality(DictKeys(cache)) = Len(cache)
C1_Witness ==
    /\ last.op = "put" /\ last.raised = ""
    /\ Len(last.pre_cache) = max_cache_size
    /\ Len(cache) = max_cache_size
    /\ max_cache_size = MaxCacheSize

\* C2: when _add_to_cache stores a new key into a cache that is at capacity,
\* exactly one entry is removed, that entry held the smallest insertion
\* timestamp, and every other entry is still present with its value and
\* timestamp.  (A store returns normally only when there is an entry to
\* evict, so the capacity is at least 1 here.)
C2_EvictsOldest ==
    (/\ last.op = "put" /\ last.raised = ""
     /\ ~DictHas(last.pre_cache, last.key)
     /\ Len(last.pre_cache) = max_cache_size)
    => \E victim \in DictKeys(last.pre_cache) :
          /\ DictKeys(cache) = (DictKeys(last.pre_cache) \ {victim}) \cup {last.key}
          /\ Len(cache) = Len(last.pre_cache)
          /\ \A k \in DictKeys(last.pre_ts) :
                DictGet(last.pre_ts, victim) <= DictGet(last.pre_ts, k)
          /\ \A k \in DictKeys(last.pre_cache) \ {victim} :
                /\ DictGet(cache, k) = DictGet(last.pre_cache, k)
                /\ DictGet(cache_timestamps, k) = DictGet(last.pre_ts, k)
          /\ DictGet(cache, last.key) = last.value
C2_Witness ==
    /\ last.op = "put" /\ last.raised = ""
    /\ ~DictHas(last.pre_cache, last.key)
    /\ Len(last.pre_cache) = max_cache_size
    /\ max_cache_size = 2
    /\ last.pre_ts[1].v < last.pre_ts[2].v
    /\ DictKeys(cache) = {last.pre_cache[2].k, last.key}

\* C3: _get_from_cache returns None for a key that is not stored and for an
\* entry with now - insertion_time > ttl, which it also removes; for an
\* entry with now - insertion_time <= ttl it returns the stored value.
C3_Expiry ==
    last.op = "get" =>
        IF ~DictHas(last.pre_cache, last.key)
        THEN /\ last.result = None
             /\ cache = last.pre_cache /\ cache_timestamps = last.pre_ts
        ELSE IF last.at - DictGet(last.pre_ts, last.key) > last.ttl
        THEN /\ last.result = None
             /\ cache = DictDel(last.pre_cache, last.key)
             /\ cache_timestamps = DictDel(last.pre_ts, last.key)
             /\ ~DictHas(cache, last.key) /\ ~DictHas(cache_timestamps, last.key)
        ELSE /\ last.result = Some(DictGet(last.pre_cache, last.key))
             /\ last.raised = ""
C3_Witness ==
    /\ last.op = "get"
    /\ DictHas(last.pre_cache, last.key)
    /\ last.at - DictGet(last.pre_ts, last.key) > last.ttl
    /\ last.result = None
    /\ ~DictHas(cache, last.key)
    /\ Len(last.pre_cache) = 2

\* C4: _add_to_cache(key, value) that returned, followed at once (no time
\* elapsed, no call between) by _get_from_cache(key, ttl) with ttl > 0,
\* returns exactly value.
C4_RoundTrip ==
    [][(/\ last.op = "put" /\ last.raised = ""
        /\ last'.op = "get" /\ last'.ttl > 0
        /\ last'.key = last.key
        /\ last'.at = last.at)
       => last'.result = Some(last.value)]_vars
C4_Witness ==
    /\ last.op = "get" /\ last.ttl > 0
    /\ last.after_put
    /\ last.at > 0
    /\ last.result.some
    /\ Len(last.result.val) = 2

\* The fields of a result record.
IsResultRecord(r) == DOMAIN r = {"title", "url", "content", "relevance_score"}

\* C5: a search that missed the cache and whose provider call failed on all
\* 3 attempts returns a list of exactly one 'Search Error' record, which
\* carries the text of the last failure and relevance score 0; it does not
\* raise.
C5_PersistentFailure ==
    (pc = "done" /\ obs.calls = 3 /\ obs.fails = 3 /\ obs.provider_only)
    => /\ ret.kind = "list"
       /\ Len(ret.val) = 1
       /\ IsResultRecord(ret.val[1])
       /\ ret.val[1].title = "Search Error"
       /\ ret.val[1].relevance_score = "0"
       /\ ret.val[1].content.err \in {"ConnectionError", "Timeout"}
       /\ ret.val[1].content.err = obs.last_error
C5_Witness ==
    /\ pc = "done" /\ obs.calls = 3 /\ obs.fails = 3 /\ obs.provider_only
    /\ ~obs.pre_fresh
    /\ ret.val[1].content.err = "Timeout"
    /\ cache # <<>>

\* C6: on a cache miss one search calls the provider at most 3 times and
\* makes no call after a pass that did not fail; it waits 2 after the first
\* failed pass and 4 after the second and does not wait after the third; and
\* it always returns, given that each provider call returns or fails.
C6_Counts ==
    /\ obs.calls <= 3
    /\ obs.calls <= obs.fails + 1
    /\ (pc = "attempt" => obs.calls = obs.fails /\ obs.calls < 3)
    /\ (pc = "done" /\ obs.outcome \in {"results", "noresults"} => obs.calls = obs.fails + 1)
    /\ (pc = "done" /\ obs.outcome = "error" => obs.calls = 3 /\ obs.fails = 3)
    /\ (pc = "done" /\ obs.outcome = "hit" => obs.calls = 0)
    /\ obs.sleeps = SubSeq(<<2, 4>>, 1,
                           IF pc = "sleep" THEN obs.fails - 1 ELSE Min2(obs.fails, 2))
C6_BoundedRetry ==
    /\ []C6_Counts
    /\ (pc \in {"attempt", "sleep"}) ~> (pc = "done")
C6_Witness ==
    /\ pc = "done" /\ obs.outcome = "results"
    /\ obs.calls = 3 /\ obs.fails = 2
    /\ obs.sleeps = <<2, 4>>

C8_EmptyNotCached ==
    [][/\ (pc' = "done" /\ obs'.outcome = "noresults") => ~DictHas(cache', cache_key')
       /\ \A q \in Queries, mr \in ResultCounts, ttl \in TTLs :
            (/\ pc = "done" /\ obs.outcome = "noresults"
             /\ NormalizeQuery(q) = query /\ mr = max_results
             /\ RunStart(q, mr, ttl))
            => (pc' = "attempt" /\ obs'.outcome = "none")]_vars
C8_Witness ==
    /\ obs.prev_outcome = "noresults" /\ obs.rel = "same"
    /\ pc = "done" /\ obs.calls >= 1
    /\ max_cache_size > 0

\* C9: a search that obtained a non-empty provider response leaves its
\* result list stored under its key; a stored list does not change while it
\* is held; and a search whose key is held and unexpired returns the stored
\* list without calling the provider.  So a repeat of the search returns the
\* same list when its entry is unexpired and not evicted.
C9_NonEmptyCached ==
    [][/\ (pc = "attempt" /\ pc' = "done" /\ obs'.outcome = "results")
          => /\ DictHas(cache', cache_key)
             /\ DictGet(cache', cache_key) = ret'.val
             /\ DictGet(cache_timestamps', cache_key) = now
       /\ \A k \in DictKeys(cache) \cap DictKeys(cache') :
             /\ DictGet(cache', k) = DictGet(cache, k)
             /\ DictGet(cache_timestamps', k) = DictGet(cache_timestamps, k)
       /\ \A q \in Queries, mr \in ResultCounts, ttl \in TTLs :
            LET k == get_cache_key(NormalizeQuery(q), mr)
            IN  (/\ RunStart(q, mr, ttl)
                 /\ DictHas(cache, k)
                 /\ now - DictGet(cache_timestamps, k) <= ttl)
                => /\ pc' = "done"
                   /\ ret' = [kind |-> "list", val |-> DictGet(cache, k)]
                   /\ obs'.calls = 0
                   /\ (pc = "done" /\ obs.outcome = "results" /\ cache_key = k
                       => ret'.val = ret.val)]_vars
C9_Witness ==
    /\ pc = "done" /\ obs.outcome = "hit" /\ obs.calls = 0
    /\ obs.prev_outcome = "results" /\ obs.rel = "same"
    /\ DictGet(cache_timestamps, cache_key) < now
    /\ Len(ret.val) = 2

\* Two characters that differ at most in letter case.
CaseEq(c1, c2) == c1 = c2 \/ {c1, c2} = {"a", "A"} \/ {c1, c2} = {"b", "B"}
\* s without i leading and j trailing characters, all of them spaces.
Trims(s) ==
    {SubSeq(s, i + 1, Len(s) - j) : <<i, j>> \in
        {ij \in (0..Len(s)) \X (0..Len(s)) :
            /\ ij[1] + ij[2] <= Len(s)
            /\ \A n \in 1..ij[1] : s[n] = " "
            /\ \A n \in (Len(s) - ij[2] + 1)..Len(s) : s[n] = " "}}
\* Two query strings that differ only in letter case or in leading or
\* trailing whitespace.
SameModuloCaseAndSpace(q1, q2) ==
    \E t1 \in Trims(q1), t2 \in Trims(q2) :
        /\ Len(t1) = Len(t2)
        /\ \A n \in 1..Len(t1) : CaseEq(t1[n], t2[n])
\* The strings of at most 3 characters over a, A, b and the space.
SampleStrings ==
    UNION {[1..n -> {"a", "A", "b", " "}] : n \in 0..3}
\* The key as _run derives it from the query a caller passes.
KeyOf(q, mr) == get_cache_key(NormalizeQuery(q), mr)
\* The key function on all pairs of sample strings.  It does not depend on
\* the state and is evaluated before the first search only.
C10_Keys ==
    pc = "idle" =>
        \A q1 \in SampleStrings, q2 \in SampleStrings :
            /\ SameModuloCaseAndSpace(q1, q2) => KeyOf(q1, 3) = KeyOf(q2, 3)
            /\ KeyOf(q1, 3) # KeyOf(q1, 5)

\* C10: two searches whose query strings differ only in letter case or in
\* leading or trailing whitespace and that pass the same max_results derive
\* the same cache key, and the second is served from the entry the first
\* left (while it is unexpired); the same query with another max_results
\* derives another key and is not served from that entry.
C10_KeyNormalization ==
    /\ []C10_Keys
    /\ [][\A q \in Queries, mr \in ResultCounts, ttl \in TTLs :
            (/\ pc = "done" /\ obs.outcome \in {"results", "hit"}
             /\ RunStart(q, mr, ttl))
            => /\ (/\ SameModuloCaseAndSpace(obs.raw_query, q) /\ mr = max_results
                   /\ now - DictGet(cache_timestamps, cache_key) <= ttl)
                  => /\ cache_key' = cache_key
                     /\ pc' = "done" /\ obs'.outcome = "hit"
                     /\ ret'.val = ret.val
               /\ (q = obs.raw_query /\ mr # max_results)
                  => /\ cache_key' # cache_key
                     /\ (~DictHas(cache, cache_key') => pc' = "attempt")]_vars
C10_Witness ==
    /\ pc = "done" /\ obs.outcome = "hit"
    /\ obs.prev_outcome = "results" /\ obs.rel = "variant"
    /\ Cardinality(DictKeys(cache)) = 2

\* C11: a batch search over n queries returns a flat list that holds, for
\* every query, exactly the results the search of that query returned: each
\* coroutine searches its own query with the batch's max_results and hands on
\* the list _run returned, and the flat list is the concatenation of those
\* lists in task order, nothing dropped, nothing twice, each list in the
\* order _run gave it.
RECURSIVE SumLen(_)
SumLen(results) == IF results = <<>> THEN 0 ELSE Len(Head(results).val) + SumLen(Tail(results))
C11_Flat ==
    b_pc = "done" =>
        /\ Len(b_results) = Len(b_queries)
        /\ Len(b_all) = SumLen(b_results)
        /\ \A i \in 1..Len(b_results) : \A k \in 1..Len(b_results[i].val) :
             b_all[SumLen(SubSeq(b_results, 1, i - 1)) + k] = b_results[i].val[k]
C11_Task ==
    /\ \A i \in 1..MaxBatch : TaskStart(i) =>
         /\ i = Len(b_results) + 1
         /\ query' = NormalizeQuery(b_queries[i])
         /\ max_results' = b_max
    /\ TaskReturn /\ ret.kind = "list" =>
         /\ Len(b_results') = Len(b_results) + 1
         /\ b_results'[b_task] = [kind |-> "list", val |-> ret.val]
C11_BatchComplete == []C11_Flat /\ [][C11_Task]_vars
\* A batch of two queries ended; the two searches returned different lists,
\* one of them of more than one record.
C11_Witness ==
    /\ b_pc = "done"
    /\ Len(b_queries) = 2
    /\ b_queries[1] # b_queries[2]
    /\ Len(b_results[1].val) = 2
    /\ Len(b_results[2].val) = 1
    /\ b_results[2].val[1].title = "T1"

\* C12: a batch search issues its queries concurrently: while the provider
\* call of one query of the batch is in flight and another query of the batch
\* has not been searched yet, the search of that other query can start; and
\* the batch returns only after every query of it has completed.
C12_Concurrent ==
    /\ (b_pc = "gather" /\ b_task # 0 /\ pc = "attempt" /\ PendingTasks # {})
         => \E j \in PendingTasks : CanStartTask(j)
    /\ b_pc = "done" => (b_task = 0 /\ Len(b_results) = Len(b_queries))

\* C13: in every pipeline run the stages execute in the order
\* industry-research, use-case-generation, ai-recommendation,
\* resource-collection, competitor-analysis, implementation-planning,
\* cost-benefit, then the terminal state: the stages entered so far are
\* always a prefix of that order (none twice, none out of turn), a run at
\* its terminal state has entered all seven, a stage is entered only while no
\* other stage of the run holds the record, the first stage receives the
\* initial record, and each stage receives exactly the record the stage
\* before it returned.
C13_Order ==
    \A k \in 1..Len(runs) :
        /\ runs[k].started = SubSeq(NodeOrder, 1, Len(runs[k].started))
        /\ runs[k].pc = "end" => runs[k].started = NodeOrder
        /\ runs[k].pc \in {"run", "after"} =>
             runs[k].node = runs[k].started[Len(runs[k].started)]
C13_Step ==
    \A k \in 1..Len(runs) :
        /\ (\E cb \in CallbackOutcomes : NotifyBefore(k, cb))
             /\ Len(runs'[k].started) = Len(runs[k].started) + 1 =>
               /\ runs[k].state = EmptyDict
               /\ runs'[k].state = runs[k].graph
               /\ runs[k].started = <<>> => runs[k].graph = initial_state(companies[k])
        /\ (\E cb \in CallbackOutcomes : NotifyAfter(k, cb))
             /\ runs'[k].pc \in {"before", "end"} =>
               /\ runs'[k].graph = runs[k].state
               /\ runs'[k].state = EmptyDict
C14_Step ==
    \A k \in 1..Len(runs) : \A urls \in MentionedUrls :
        UseCaseGeneration(k, "raises", urls) =>
            /\ runs'[k].pc = "after"
            /\ Has(runs'[k].state, "use_cases") /\ runs'[k].state["use_cases"] = <<>>
            /\ Has(runs'[k].state, "errors")
            /\ Len(runs'[k].state["errors"]) = Len(GetOr(runs[k].state, "errors", <<>>)) + 1
            /\ \A f \in {"company_name", "industry", "key_offerings", "market_trends",
                         "industry_insights", "web_search_results"} :
                 Has(runs'[k].state, f) /\ runs'[k].state[f] = runs[k].state[f]
C14_Stage2Isolated == [][C14_Step]_vars

\* C15: the pipeline never aborts on a single stage's failure: whatever the
\* remote calls of a stage answer (a text it cannot parse, or an exception),
\* the stage returns a record, so that the chain goes on to the next stage
\* and no exception leaves the graph.
C15_Step ==
    \A k \in 1..Len(runs) :
        (runs[k].pc = "run" /\ runs'[k] # runs[k]) => runs'[k].pc = "after"
C15_NeverAborts == [][C15_Step]_vars

\* C16: a progress callback that raises does not abort the pipeline: when
\* the callback a node's wrapper calls before its stage raises, the stage
\* still runs; when the one it calls after its stage raises, the stage's
\* record is still returned; and research_company's own notifications do not
\* make the request fail.
C16_Step ==
    /\ \A k \in 1..Len(runs) :
         /\ NotifyBefore(k, "raises") => runs'[k].pc = "run"
         /\ NotifyAfter(k, "raises") => runs'[k].pc \in {"before", "end"}
    /\ \A pick \in 0..MaxRows :
         ResearchCompany("raises", pick) => runs'[company_idx].call # "failed"
    /\ (InvokeReturns("raises") /\ runs[company_idx].pc = "end") =>
         runs'[company_idx].call = "done"
C16_CallbackIsolated == [][C16_Step]_vars

\* C17: when the report cache (the table report_cache) holds a fresh entry
\* for the company and industry, research_company returns such an entry
\* unchanged, starts no pipeline stage and writes nothing to the cache.
C17_Step ==
    \A cb \in CallbackOutcomes : \A pick \in 0..MaxRows :
        (/\ ResearchCompany(cb, pick)
         /\ MatchingRows(report_cache, companies[company_idx], wall) # {}) =>
            /\ runs'[company_idx].pc = "idle"
            /\ report_cache' = report_cache
            /\ cb = "returns" =>
                 /\ runs'[company_idx].call = "done"
                 /\ \E i \in MatchingRows(report_cache, companies[company_idx], wall) :
                      runs'[company_idx].result = eval_of(report_cache[i].data)
C17_ShortCircuit == [][C17_Step]_vars

\* C18: a run that missed the report cache and completed has written its
\* final record to the cache, and a request for the same company and
\* industry that follows it at once (within the same hour) returns that
\* record without starting any stage.
C18_Step ==
    /\ (InvokeReturns("returns") /\ runs[company_idx].pc = "end") =>
         /\ Len(report_cache') = Len(report_cache) + 1
         /\ report_cache'[Len(report_cache')] =
              [company |-> companies[company_idx], industry |-> industry,
               data |-> str_of(runs'[company_idx].result), created_at |-> wall]
    /\ \A pick \in 0..MaxRows :
         (/\ ResearchCompany("returns", pick)
          /\ company_idx > 1
          /\ companies[company_idx - 1] = companies[company_idx]
          /\ runs[company_idx - 1].call = "done"
          /\ runs[company_idx - 1].started = NodeOrder
          /\ report_cache # <<>>
          /\ report_cache[Len(report_cache)].created_at = wall) =>
             /\ runs'[company_idx].call = "done"
             /\ runs'[company_idx].pc = "idle"
             /\ runs'[company_idx].result = runs[company_idx - 1].result
C18_WriteThenHit == [][C18_Step]_vars

\* C19: requests are not interleaved: at most one pipeline run is executing
\* at any time; a run executes only while its own request is the active one;
\* and the request of company k+1 is not begun (so none of its stages
\* starts) before the request of company k has returned or failed, by which
\* time the pipeline of company k has reached its terminal state, raised, or
\* never started.
C19_OneAtATime ==
    /\ Cardinality({k \in 1..Len(runs) : Executing(runs[k])}) <= 1
    /\ \A k \in 1..Len(runs) :
         /\ Executing(runs[k]) => (runs[k].call = "active" /\ k = company_idx)
         /\ runs[k].call \in {"done", "failed"} => runs[k].pc \in {"idle", "end", "raised"}
         /\ runs[k].call = "pending" => runs[k].pc = "idle"
    /\ \A k \in 1..(Len(runs) - 1) :
         runs[k + 1].call # "pending" => runs[k].call \in {"done", "failed"}
\* The second company's pipeline is executing its fourth stage after the
\* first company's pipeline made every stage and its request returned.
C19_Witness ==
    /\ Len(runs) = 2
    /\ runs[1].pc = "end" /\ runs[1].call = "done"
    /\ runs[2].pc = "run" /\ runs[2].node = "resource_collection"

\* C20: each stage writes only the fields designated to it (and the shared
\* error list) and leaves every field designated to another stage unchanged;
\* no stage other than resource-collection changes resource_links; and the
\* record a stage is given holds no field designated to that stage or to a
\* later one.
Designated(n) ==
    CASE n = "industry_research" ->
             {"key_offerings", "market_trends", "industry_insights", "web_search_results"}
      [] n = "use_case_generation" -> {"use_cases"}
      [] n = "ai_recommendation_node" -> {"ai_recommendations"}
      [] n = "resource_collection" -> {"resource_links"}
      [] n = "competitor_analysis" -> {"competitors", "competitor_analysis_tool"}
      [] n = "implementation_plan" -> {"implementation_plans"}
      [] n = "cost_benefit" -> {"cost_benefit_analyses"}
\* The keys that one of the two records holds and the other does not, or
\* that they hold with different values.
Changed(a, b) ==
    {f \in DOMAIN a \cup DOMAIN b : ~(f \in DOMAIN a /\ f \in DOMAIN b /\ a[f] = b[f])}
Position(n) == CHOOSE i \in 1..Len(NodeOrder) : NodeOrder[i] = n
C20_Step ==
    \A k \in 1..Len(runs) :
        /\ (runs[k].pc = "run" /\ runs'[k].pc = "after") =>
             Changed(runs[k].state, runs'[k].state) \subseteq Designated(runs[k].node) \cup {"errors"}
        /\ (runs[k].pc = "before" /\ runs'[k].pc = "run") =>
             \A i \in Position(runs[k].node)..Len(NodeOrder) :
                 DOMAIN runs'[k].state \cap Designated(NodeOrder[i]) = {}
C20_FieldOwnership == [][C20_Step]_vars

\* The length of the record's error list; a record with no 'errors' key has
\* recorded nothing.
ErrorCount(st) == Len(GetOr(st, "errors", <<>>))
\* C21: every swallowed parse failure is recorded: when a stage gets one
\* answer it cannot parse (key offerings, competitors, competitive
\* positioning, implementation plan, cost-benefit analysis), substitutes the
\* default and returns, the record's error list is one entry longer after the
\* stage than before it.
C21_Step ==
    \A k \in 1..Len(runs) :
        (/\ runs'[k].pc = "after"
         /\ \/ IndustryResearch(k, "garbled", "ok")
            \/ CompetitorAnalysis(k, "garbled", "ok")
            \/ CompetitorAnalysis(k, "ok", "garbled")
            \/ (ImplementationPlanning(k, "garbled") /\ Len(runs[k].state["use_cases"]) = 1)
            \/ (CostBenefit(k, "garbled") /\ Len(runs'[k].state["cost_benefit_analyses"]) = 1))
        => ErrorCount(runs'[k].state) = ErrorCount(runs[k].state) + 1
C21_ParseFailureRecorded == [][C21_Step]_vars

\* C22: overwrite does not evict: _add_to_cache for a key that is already
\* stored in a cache at capacity replaces that key's value and timestamp and
\* removes no other entry.
C22_OverwriteKeeps ==
    (/\ last.op = "put" /\ last.raised = ""
     /\ DictHas(last.pre_cache, last.key)
     /\ Len(last.pre_cache) = max_cache_size)
    => /\ DictKeys(cache) = DictKeys(last.pre_cache)
       /\ DictKeys(cache_timestamps) = DictKeys(last.pre_ts)
       /\ DictGet(cache, last.key) = last.value
       /\ DictGet(cache_timestamps, last.key) = last.at
       /\ \A k \in DictKeys(last.pre_cache) \ {last.key} :
             /\ DictGet(cache, k) = DictGet(last.pre_cache, k)
             /\ DictGet(cache_timestamps, k) = DictGet(last.pre_ts, k)

\* list a is a prefix of list b
IsPrefix(a, b) == Len(a) <= Len(b) /\ SubSeq(b, 1, Len(a)) = a
\* C23: the error list only grows: the error list of the record a stage
\* returns has the error list of the record the stage was given as a prefix,
\* for every stage and whatever its calls answered (the industry-research
\* stage with a failed analysis call included); and the record the graph holds
\* after the stage has the error list of the record it held before as a
\* prefix.  A record with no 'errors' key has the empty error list.
C23_Step ==
    \A k \in 1..Len(runs) :
        /\ (runs[k].pc = "run" /\ runs'[k].pc = "after") =>
             IsPrefix(GetOr(runs[k].state, "errors", <<>>), GetOr(runs'[k].state, "errors", <<>>))
        /\ (runs[k].pc = "after" /\ runs'[k].pc \in {"before", "end"}) =>
             IsPrefix(GetOr(runs[k].graph, "errors", <<>>), GetOr(runs'[k].graph, "errors", <<>>))
C23_ErrorsOnlyGrow == [][C23_Step]_vars
\* The analysis call of the first stage failed, the call of the second
\* failed, and the searches of the fourth failed: three entries, in that
\* order.
C23_Witness ==
    \E k \in 1..Len(runs) :
        /\ runs[k].pc = "after" /\ runs[k].node = "resource_collection"
        /\ Has(runs[k].state, "errors")
        /\ runs[k].state["errors"] =
             <<"Analysis error", "Use case generation error", "Resource collection error">>

\* The fields the stages derive.
DerivedFields ==
    {"key_offerings", "market_trends", "industry_insights", "web_search_results",
     "use_cases", "ai_recommendations", "resource_links", "competitors",
     "competitor_analysis_tool", "implementation_plans", "cost_benefit_analyses"}
\* C24: terminal record completeness: every run that started from a record
\* holding only company name and industry and reached the terminal state
\* holds a record with all derived fields (and still company name and
\* industry), whichever stages fell back to defaults; the record
\* research_company returns for such a run and the one it caches are that
\* record.
C24_Complete ==
    /\ \A k \in 1..Len(runs) :
         /\ runs[k].pc = "end" =>
              /\ DerivedFields \subseteq DOMAIN runs[k].graph
              /\ runs[k].graph["company_name"] = companies[k]
              /\ runs[k].graph["industry"] = industry
         /\ (runs[k].pc = "end" /\ runs[k].call = "done") => runs[k].result = runs[k].graph
    /\ \A i \in 1..Len(report_cache) : DerivedFields \subseteq DOMAIN eval_of(report_cache[i].data)
\* A run reached the terminal state after the first, second and fourth stage
\* fell back to their defaults.
C24_Witness ==
    \E k \in 1..Len(runs) :
        /\ runs[k].pc = "end" /\ runs[k].call = "done"
        /\ runs[k].result["use_cases"] = <<>>
        /\ runs[k].result["resource_links"] = <<>>
        /\ runs[k].result["market_trends"] = <<>>
        /\ Len(runs[k].result["errors"]) = 3
        /\ report_cache # <<>>

\* C25: cache bookkeeping consistency: in every reachable state of
\* WebSearchTool the keys of _cache are the keys of _cache_timestamps, and
\* neither dict holds a key twice.
C25_SameKeys ==
    /\ DictKeys(cache) = DictKeys(cache_timestamps)
    /\ Len(cache) = Len(cache_timestamps)
    /\ Cardinality(DictKeys(cache)) = Len(cache)
\* A search found its entry expired, deleted it, and stored a new one into a
\* cache that holds another entry.
C25_Witness ==
    /\ pc = "done" /\ obs.outcome = "results"
    /\ obs.pre_has /\ ~obs.pre_fresh
    /\ Len(cache) = 2
    /\ DictHas(cache_timestamps, cache_key)

\* The titles of the two sentinel records.
SentinelTitles == {"Search Error", "No results found"}
\* No stored list holds a sentinel record, and a search that returned a
\* sentinel left no entry under its key.
C26_Clean ==
    /\ \A i \in 1..Len(cache) : \A j \in 1..Len(cache[i].v) :
         cache[i].v[j].title \notin SentinelTitles
    /\ (pc = "done" /\ obs.outcome \in {"error", "noresults"}) =>
         /\ ret.kind = "list" /\ Len(ret.val) = 1 /\ ret.val[1].title \in SentinelTitles
         /\ ~DictHas(cache, cache_key)
\* The lookup of a search changes the dicts only by deleting the looked-up
\* key's expired entry; a pass of the retry loop that does not end the search
\* with results, and a wait, leave both dicts as they were.  (A search that
\* returns a sentinel is made of such steps only.)
C26_Step ==
    /\ (\E q \in Queries, mr \in ResultCounts, ttl \in TTLs : RunStart(q, mr, ttl)) =>
         \/ cache' = cache /\ cache_timestamps' = cache_timestamps
         \/ /\ obs'.pre_has /\ ~obs'.pre_fresh
            /\ cache' = DictDel(cache, cache_key')
            /\ cache_timestamps' = DictDel(cache_timestamps, cache_key')
    /\ (pc \in {"attempt", "sleep"} /\ ~(pc' = "done" /\ obs'.outcome = "results")) =>
         cache' = cache /\ cache_timestamps' = cache_timestamps
\* C26: sentinel results never enter the cache: a search that returns the
\* 'Search Error' or the 'No results found' sentinel adds no entry, and apart
\* from deleting an expired entry for the looked-up key leaves the cache as
\* it was; no cached value ever contains a sentinel record.
C26_SentinelNotCached == []C26_Clean /\ [][C26_Step]_vars
\* A search gave up with 'Search Error' after a pass that failed past the
\* provider call; its lookup had deleted its expired entry, and another
\* entry is still held.
C26_Witness ==
    /\ pc = "done" /\ obs.outcome = "error"
    /\ ~obs.provider_only
    /\ obs.pre_has /\ ~obs.pre_fresh
    /\ Len(cache) = 1

\* C27: a cache hit changes nothing: a search whose lookup returns an
\* unexpired entry leaves _cache and _cache_timestamps unchanged (the
\* entry's insertion timestamp is not refreshed), returns the stored list and
\* ends at once, with no provider call.
C27_Step ==
    \A q \in Queries, mr \in ResultCounts, ttl \in TTLs :
        LET k == get_cache_key(NormalizeQuery(q), mr)
        IN  (/\ RunStart(q, mr, ttl)
             /\ DictHas(cache, k)
             /\ now - DictGet(cache_timestamps, k) <= ttl)
            => /\ cache' = cache
               /\ cache_timestamps' = cache_timestamps
               /\ pc' = "done"
               /\ obs'.outcome = "hit" /\ obs'.calls = 0
               /\ ret' = [kind |-> "list", val |-> DictGet(cache, k)]
C27_HitChangesNothing ==
    /\ [](pc = "done" /\ obs.outcome = "hit" => obs.calls = 0 /\ obs.sleeps = <<>>)
    /\ [][C27_Step]_vars
\* A search was served from the older of two entries, some time after that
\* entry was stored.
C27_Witness ==
    /\ pc = "done" /\ obs.outcome = "hit"
    /\ Len(cache) = 2
    /\ cache_timestamps[1].k = cache_key
    /\ cache_timestamps[1].v < cache_timestamps[2].v
    /\ cache_timestamps[2].v < now

\* C28: success is independent of the cache capacity: for every cache_size,
\* 0 included, a search whose provider call answers its first attempt with a
\* response that yields at least one record returns those records at once,
\* after that one provider call; a failure of the store is not handled as a
\* failure of the provider.
C28_Step ==
    \A outcome \in ProviderOutcomes :
        (/\ Attempt(outcome)
         /\ attempt = 0
         /\ outcome.raises = ""
         /\ ~ProcessResponse(outcome).raised
         /\ ProcessResponse(outcome).results # <<>>)
        => /\ pc' = "done"
           /\ ret' = [kind |-> "list", val |-> ProcessResponse(outcome).results]
           /\ obs'.calls = 1 /\ obs'.fails = 0
C28_CapacityIndependent == [][C28_Step]_vars

\* The places in the list ns of the notifications node n made at its first
\* (at = "before") or at its second (at = "after") callback.
NotesOf(ns, n, at) == {i \in 1..Len(ns) : ns[i].by = n /\ ns[i].at = at}
\* C29: progress notifications are ordered: over one pipeline run with a
\* callback supplied every notification carries total = 8 and a step with
\* 0 <= step <= total; the steps never decrease in the order of emission; a
\* stage that started was announced by exactly one notification before it,
\* a stage whose wrapper returned was followed by exactly one notification
\* after it, no stage notifies more than once at either place, and a stage's
\* two notifications carry the same step, the one before first.
C29_Ordered ==
    \A k \in 1..Len(runs) :
        LET ns == runs[k].notified
            entered == {runs[k].started[i] : i \in 1..Len(runs[k].started)}
        IN  /\ \A i \in 1..Len(ns) : ns[i].total = 8 /\ 0 <= ns[i].step /\ ns[i].step <= ns[i].total
            /\ \A i \in 1..Len(ns) : \A j \in i..Len(ns) : ns[i].step <= ns[j].step
            /\ \A i \in 1..Len(NodeOrder) :
                 LET n == NodeOrder[i]
                     b == NotesOf(ns, n, "before")
                     a == NotesOf(ns, n, "after")
                 IN  /\ Cardinality(b) <= 1 /\ Cardinality(a) <= 1
                     /\ n \in entered => Cardinality(b) = 1
                     /\ (n \in entered /\ runs[k].node # n) => Cardinality(a) = 1
                     /\ a # {} =>
                          /\ n \in entered
                          /\ \A x \in b : \A y \in a : x < y /\ ns[x].step = ns[y].step
\* A run made all seven stages and its request returned: sixteen
\* notifications, from step 0 to step 8.
C29_Witness ==
    \E k \in 1..Len(runs) :
        /\ runs[k].pc = "end" /\ runs[k].call = "done"
        /\ Len(runs[k].notified) = 16
        /\ runs[k].notified[1].step = 0
        /\ runs[k].notified[2].by = "industry_research"
        /\ runs[k].notified[15].by = "cost_benefit"
        /\ runs[k].notified[16].by = "research_company"

\* C30: resource links stay unique and are only appended: in the record the
\* resource-collection stage returns resource_links holds no URL twice, the
\* list the stage was given is a prefix of it (every URL still at its
\* place), every URL added is non-empty and of one of the relevant domains,
\* and at most 15 URLs were added.
C30_Step ==
    \A k \in 1..Len(runs) :
        (runs[k].pc = "run" /\ runs[k].node = "resource_collection" /\ runs'[k].pc = "after") =>
            LET before == GetOr(runs[k].state, "resource_links", <<>>)
                after == GetOr(runs'[k].state, "resource_links", <<>>)
            IN  /\ Has(runs'[k].state, "resource_links")
                /\ \A i \in 1..Len(after) : \A j \in 1..Len(after) : i # j => after[i] # after[j]
                /\ IsPrefix(before, after)
                /\ \A i \in (Len(before) + 1)..Len(after) :
                     /\ after[i] # NoUrl
                     /\ LowerHost(after[i].host) \in DictKeys(relevant_domains)
                /\ Len(after) - Len(before) <= 15
C30_LinksAppended == [][C30_Step]_vars
\* The stage was given two links, one of them of no relevant domain, found
\* seventeen relevant URLs and appended fifteen.
C30_Witness ==
    \E k \in 1..Len(runs) :
        /\ runs[k].pc = "after" /\ runs[k].node = "resource_collection"
        /\ Len(runs[k].state["resource_links"]) = 17
        /\ runs[k].state["resource_links"][1].host = "example.com"
        /\ runs[k].state["resource_links"][3] = Url("kaggle.com", 2)

=============================================================================
